---- MODULE Spec2Model ----
(***************************************************************************)
(* Status Report Scribe: the collection of speaker cards kept by App and   *)
(* the recording / summarisation pipeline each ReportCard drives.          *)
(*                                                                         *)
(* One step of the model is one task of the browser's event loop: a click  *)
(* handler, the continuation of an awaited promise (getUserMedia,          *)
(* blobToBase64, generateContent, fileToData), a MediaRecorder "stop"      *)
(* event or a setInterval callback.  React state updates issued by a task  *)
(* are applied within the step (functional updaters on the latest state).  *)
(*                                                                         *)
(* Left out, as nothing the cards keep depends on them: the showContext    *)
(* toggle (the context section can be opened in every status), the audio   *)
(* chunks and the blob, copyToClipboard, the auto-scroll effect.  The      *)
(* MediaRecorder is taken to construct and start without throwing.         *)
(***************************************************************************)
EXTENDS Integers, Sequences, FiniteSets

\* ------------------------------------------------------------------ bounds
\* What the user does: adding or deleting a card, clicking Start, Stop or Reset,
\* changing the language, editing a field, picking or removing a file.
MaxUserOps == 4
\* The elapsed-seconds counter is not ticked past this.
MaxTimer == 1

\* ------------------------------------------------------------------ values
IDLE == "IDLE"
RECORDING == "RECORDING"
PROCESSING == "PROCESSING"
COMPLETED == "COMPLETED"
ERROR == "ERROR"
CardStatus == {IDLE, RECORDING, PROCESSING, COMPLETED, ERROR}

TargetLanguage == {"en", "de"}

\* The value of an optional field that is absent (TypeScript undefined).
undefined == "undefined"

\* null in a ref; recorders and intervals are numbered from 1.
null == 0

MicAccessDenied == "Mic access denied"
FailedToProcess == "Failed to process audio."
NoUpdatesEn == "No new updates detected."
NoUpdatesDe == "Keine neuen Updates erkannt."

\* Inputs the environment can supply.
ResponseTexts == {"", "- Task A done"}       \* response.text of the remote call
FailureMessages == {"", "quota exceeded"}    \* error.message of a rejection
ContextTexts == {"Already deployed v1"}      \* typed into the context textarea
SpeakerNames == {"Alice"}                    \* typed into the name input
SummaryTexts == {"- edited"}                 \* typed into the summary textarea
Files == {"notes.txt", "plan.pdf"}           \* files picked in the file input

\* The initial card and one per user operation at most.
CardIds == 1..(MaxUserOps + 1)

VARIABLES
    items,          \* App: useState<ReportItem[]>
    language,       \* App: useState<TargetLanguage>
    initialEffect,  \* App: the "Initial card" effect has still to run
    nextId,         \* next value uuidv4() returns
    card,           \* per mounted ReportCard: timer, mediaRecorderRef, timerIntervalRef
    starts,         \* history: per card id, clicks on its Start button so far
    pendingMedia,   \* getUserMedia promises not yet settled, with the closure awaiting each
    recorders,      \* every MediaRecorder constructed, with its stream and its onstop closure
    calls,          \* generateReportFromAudio invocations in flight
    pendingReads,   \* fileToData promises not yet settled
    userOps         \* history: user operations counted against MaxUserOps

vars == <<items, language, initialEffect, nextId, card, starts, pendingMedia, recorders,
          calls, pendingReads, userOps>>

\* ------------------------------------------------------------------ helpers
RemoveAt(s, i) == [j \in 1..(Len(s) - 1) |-> IF j < i THEN s[j] ELSE s[j + 1]]

ItemIds == {items[i].id : i \in DOMAIN items}

Mounted(id) == id \in ItemIds

ItemOf(id) == items[CHOOSE i \in DOMAIN items : items[i].id = id]

\* State a ReportCard component is mounted with.  After its unmount nothing
\* reads the component's state or refs again, so they are put back to this.
FreshCard == [timer |-> 0, mediaRecorderRef |-> null, timerIntervalRef |-> null]


\* ------------------------------------------------------------------ App
\* `Speaker ${n}`
SpeakerLabel(n) ==
    <<"Speaker 1", "Speaker 2", "Speaker 3", "Speaker 4", "Speaker 5", "Speaker 6",
      "Speaker 7">>[n]

\* { id, speakerName, ..., ...updates }: the optional fields of the item are
\* not carried over.
MergeDropsOptional(item, updates) ==
    [f \in DOMAIN item |->
        IF f \in DOMAIN updates THEN updates[f]
        ELSE IF f \in {"error", "contextText", "contextFile"} THEN undefined
        ELSE item[f]]

\* { ...item, ...updates }
Merge(item, updates) ==
    [f \in DOMAIN item |-> IF f \in DOMAIN updates THEN updates[f] ELSE item[f]]

\* prev.map(item => ({ ...item, ...updates })): the id is not compared.
updateItemAll(prev, id, updates) ==
    [i \in DOMAIN prev |-> Merge(prev[i], updates)]

\* prev.map(item => item.id !== id ? { ...item, ...updates } : item)
updateItemInverted(prev, id, updates) ==
    [i \in DOMAIN prev |-> IF prev[i].id # id THEN Merge(prev[i], updates) ELSE prev[i]]

\* prev.map(item => item.id === id ? { ...item, ...updates } : item)
updateItem(prev, id, updates) ==
    [i \in DOMAIN prev |-> IF prev[i].id = id THEN Merge(prev[i], updates) ELSE prev[i]]

\* prev.filter(item => item.id !== id)
deleteItem(prev, id) ==
    LET keep(it) == it.id # id IN SelectSeq(prev, keep)

\* The new item named by the count of cards ever created, not by prev.length.
NewItemCountsCreated(prev) ==
    [id |-> nextId,
     speakerName |-> SpeakerLabel(nextId),
     status |-> IDLE,
     text |-> "",
     timestamp |-> nextId,
     durationSeconds |-> 0,
     error |-> undefined,
     contextText |-> undefined,
     contextFile |-> undefined]

\* The new item of addNewCard.  uuidv4() and Date.now() are modelled by the
\* number of the card in creation order.
NewItem(prev) ==
    [id |-> nextId,
     speakerName |-> SpeakerLabel(Len(prev) + 1),
     status |-> IDLE,
     text |-> "",
     timestamp |-> nextId,
     durationSeconds |-> 0,
     error |-> undefined,
     contextText |-> undefined,
     contextFile |-> undefined]

addNewCard ==
    /\ items' = Append(items, NewItem(items))
    /\ card' = [card EXCEPT ![nextId] = FreshCard]
    /\ nextId' = nextId + 1
    /\ UNCHANGED <<language, pendingMedia, recorders, calls, pendingReads, starts>>

\* useEffect(() => { if (items.length === 0) addNewCard(); }, [])
InitialCard ==
    /\ initialEffect
    /\ initialEffect' = FALSE
    /\ IF Len(items) = 0
       THEN addNewCard
       ELSE UNCHANGED <<items, card, starts, nextId, language, pendingMedia,
                        recorders, calls, pendingReads>>
    /\ UNCHANGED userOps

NewSpeaker ==
    /\ ~initialEffect
    /\ userOps < MaxUserOps
    /\ userOps' = userOps + 1
    /\ addNewCard
    /\ UNCHANGED initialEffect

setLanguage(lang) ==
    /\ ~initialEffect
    /\ lang # language => userOps < MaxUserOps
    /\ language' = lang
    /\ userOps' = IF lang # language THEN userOps + 1 ELSE userOps
    /\ UNCHANGED <<items, initialEffect, nextId, card, starts, pendingMedia, recorders,
                   calls, pendingReads>>

\* ------------------------------------------------------------------ ReportCard
\* MediaRecorder.stop(), called by stopRecording or by the unmount cleanup of a
\* mounted card: the recorder becomes inactive at once and its "stop" event is
\* queued as a later task.  The fields stops, stoppedBy and ...AtStop are history:
\* who stopped the recorder, and the card's status, timer, language and context
\* at that moment.
recorderStop(recs, r, by) ==
    [recs EXCEPT ![r].state = "inactive", ![r].stopPending = TRUE,
                 ![r].stops = @ + 1, ![r].stoppedBy = by,
                 ![r].statusAtStop = ItemOf(recs[r].id).status,
                 ![r].timerAtStop = card[recs[r].id].timer,
                 ![r].languageAtStop = language,
                 ![r].contextTextAtStop = ItemOf(recs[r].id).contextText,
                 ![r].contextFileAtStop = ItemOf(recs[r].id).contextFile]

\* clearInterval(timerIntervalRef.current)
clearInterval(recs, r) == [recs EXCEPT ![r].intervalLive = FALSE]

IsRecording(r) == r # null /\ recorders[r].state = "recording"

\* startRecording behind a Start button rendered while status is IDLE or COMPLETED.
startRecordingAlsoCompleted(id) ==
    /\ ~initialEffect
    /\ Mounted(id)
    /\ ItemOf(id).status \in {IDLE, COMPLETED}
    /\ userOps < MaxUserOps
    /\ userOps' = userOps + 1
    /\ pendingMedia' = Append(pendingMedia,
            [id |-> id, language |-> language,
             contextText |-> ItemOf(id).contextText,
             contextFile |-> ItemOf(id).contextFile])
    /\ starts' = [starts EXCEPT ![id] = @ + 1]
    /\ UNCHANGED <<items, language, initialEffect, nextId, card, recorders, calls,
                   pendingReads>>

\* The Start button (rendered while status is IDLE) runs startRecording up to
\* its await: the getUserMedia promise is pending, and what resumes after it is
\* the closure of the render that handled the click (its item and language).
startRecording(id) ==
    /\ ~initialEffect
    /\ Mounted(id)
    /\ ItemOf(id).status = IDLE
    /\ userOps < MaxUserOps
    /\ userOps' = userOps + 1
    /\ pendingMedia' = Append(pendingMedia,
            [id |-> id, language |-> language,
             contextText |-> ItemOf(id).contextText,
             contextFile |-> ItemOf(id).contextFile])
    /\ starts' = [starts EXCEPT ![id] = @ + 1]
    /\ UNCHANGED <<items, language, initialEffect, nextId, card, recorders, calls,
                   pendingReads>>

\* getUserMedia resolved: the rest of the try block of startRecording.
NewRecorder(p) ==
    [id |-> p.id, state |-> "recording", stopPending |-> FALSE,
     streamLive |-> TRUE, intervalLive |-> TRUE,
     language |-> p.language, contextText |-> p.contextText,
     contextFile |-> p.contextFile,
     stops |-> 0, releases |-> 0, submitted |-> 0, stoppedBy |-> "none",
     statusAtStop |-> "none",
     timerAtStop |-> 0, languageAtStop |-> "en", contextTextAtStop |-> undefined,
     contextFileAtStop |-> undefined]

MediaGranted(i) ==
    /\ i \in DOMAIN pendingMedia
    /\ LET p == pendingMedia[i]
           r == Len(recorders) + 1
       IN /\ recorders' = Append(recorders, NewRecorder(p))
          /\ items' = updateItem(items, p.id, [status |-> RECORDING])
          /\ card' = IF Mounted(p.id)
                     THEN [card EXCEPT ![p.id].mediaRecorderRef = r,
                                       ![p.id].timer = 0,
                                       ![p.id].timerIntervalRef = r]
                     ELSE card
    /\ pendingMedia' = RemoveAt(pendingMedia, i)
    /\ UNCHANGED <<language, initialEffect, nextId, calls, pendingReads, starts, userOps>>

\* getUserMedia rejected: the catch block of startRecording.
MediaDenied(i) ==
    /\ i \in DOMAIN pendingMedia
    /\ items' = updateItem(items, pendingMedia[i].id,
                           [status |-> ERROR, error |-> MicAccessDenied])
    /\ pendingMedia' = RemoveAt(pendingMedia, i)
    /\ UNCHANGED <<language, initialEffect, nextId, card, starts, recorders, calls,
                   pendingReads, userOps>>

\* setInterval(() => setTimer(prev => prev + 1), 1000); setTimer on an
\* unmounted component changes nothing.
Tick(r) ==
    /\ r \in DOMAIN recorders
    /\ recorders[r].intervalLive
    /\ Mounted(recorders[r].id)
    /\ card[recorders[r].id].timer < MaxTimer
    /\ card' = [card EXCEPT ![recorders[r].id].timer = @ + 1]
    /\ UNCHANGED <<items, language, initialEffect, nextId, pendingMedia, recorders,
                   calls, pendingReads, starts, userOps>>

\* stopRecording with the timer of the render that started the recording.
stopRecordingStaleTimer(id) ==
    /\ LET c == card[id]
       IN IF IsRecording(c.mediaRecorderRef)
          THEN /\ recorders' =
                    LET stopped == recorderStop(recorders, c.mediaRecorderRef, "stopRecording")
                    IN IF c.timerIntervalRef # null
                       THEN clearInterval(stopped, c.timerIntervalRef)
                       ELSE stopped
               /\ card' = [card EXCEPT ![id].timerIntervalRef = null]
               /\ items' = updateItem(items, id,
                                [status |-> PROCESSING, durationSeconds |-> 0])
          ELSE UNCHANGED <<recorders, card, items>>
    /\ UNCHANGED <<language, initialEffect, nextId, pendingMedia, calls, pendingReads,
                   starts>>

\* stopRecording, as the Stop button calls it.
stopRecording(id) ==
    /\ LET c == card[id]
       IN IF IsRecording(c.mediaRecorderRef)
          THEN /\ recorders' =
                    LET stopped == recorderStop(recorders, c.mediaRecorderRef, "stopRecording")
                    IN IF c.timerIntervalRef # null
                       THEN clearInterval(stopped, c.timerIntervalRef)
                       ELSE stopped
               /\ card' = [card EXCEPT ![id].timerIntervalRef = null]
               /\ items' = updateItem(items, id,
                                [status |-> PROCESSING, durationSeconds |-> c.timer])
          ELSE UNCHANGED <<recorders, card, items>>
    /\ UNCHANGED <<language, initialEffect, nextId, pendingMedia, calls, pendingReads,
                   starts>>

\* The Stop button (rendered while status is RECORDING).
Stop(id) ==
    /\ Mounted(id)
    /\ ItemOf(id).status = RECORDING
    /\ userOps < MaxUserOps
    /\ userOps' = userOps + 1
    /\ stopRecording(id)

\* The cleanup clearing the interval only, the recorder left running.
UnmountClearsOnly(recs, id) ==
    LET c == card[id]
    IN IF c.timerIntervalRef # null
       THEN clearInterval(recs, c.timerIntervalRef) ELSE recs

\* The cleanup of the unmount effect.
Unmount(recs, id) ==
    LET c == card[id]
        cleared == IF c.timerIntervalRef # null
                   THEN clearInterval(recs, c.timerIntervalRef) ELSE recs
    IN IF IsRecording(c.mediaRecorderRef)
       THEN recorderStop(cleared, c.mediaRecorderRef, "unmount")
       ELSE cleared

\* The Delete button: App.deleteItem, then React unmounts the card.
deleteCard(id) ==
    /\ Mounted(id)
    /\ userOps < MaxUserOps
    /\ userOps' = userOps + 1
    /\ recorders' = Unmount(recorders, id)
    /\ items' = deleteItem(items, id)
    /\ card' = [card EXCEPT ![id] = FreshCard]
    /\ UNCHANGED <<language, initialEffect, nextId, pendingMedia, calls, pendingReads,
                   starts>>

\* stream.getTracks().forEach(track => track.stop()).  The stop event is
\* delivered once, so what its handler captured is kept no longer.
Delivered(rec) ==
    [rec EXCEPT !.stopPending = FALSE, !.streamLive = FALSE,
                !.releases = @ + 1, !.submitted = @ + 1,
                !.language = "en", !.contextText = undefined,
                !.contextFile = undefined, !.timerAtStop = 0, !.languageAtStop = "en",
                !.contextTextAtStop = undefined, !.contextFileAtStop = undefined]

\* mediaRecorder.onstop: stop the tracks, build the blob, handleProcessing(blob),
\* which calls generateReportFromAudio.  A call in flight stands for its two
\* awaits in turn (blobToBase64, then generateContent): nothing the program
\* keeps changes between them.
onstop(r) ==
    /\ r \in DOMAIN recorders
    /\ recorders[r].stopPending
    /\ recorders' = [recorders EXCEPT ![r] = Delivered(@)]
    /\ calls' = calls \cup {[recorder |-> r, id |-> recorders[r].id,
                             language |-> recorders[r].language,
                             contextText |-> recorders[r].contextText,
                             contextFile |-> recorders[r].contextFile,
                             timerAtStop |-> recorders[r].timerAtStop,
                             languageAtStop |-> recorders[r].languageAtStop,
                             contextTextAtStop |-> recorders[r].contextTextAtStop,
                             contextFileAtStop |-> recorders[r].contextFileAtStop]}
    /\ UNCHANGED <<items, language, initialEffect, nextId, card, starts, pendingMedia,
                   pendingReads, userOps>>

\* response.text && (language === 'en' ? ... : ...)
ResultTextAnd(text, lang) ==
    IF text # "" THEN (IF lang = "en" THEN NoUpdatesEn ELSE NoUpdatesDe) ELSE text

\* response.text || (language === 'en' ? ... : ...)
ResultText(text, lang) ==
    IF text # "" THEN text ELSE IF lang = "en" THEN NoUpdatesEn ELSE NoUpdatesDe

\* new Error(error.message).message
ThrownMessageNoFallback(message) == message

\* new Error(error.message || "Failed to process audio.").message
ThrownMessage(message) == IF message # "" THEN message ELSE FailedToProcess

\* handleProcessing with the fallback taken from the language selected when
\* the call returns.
ResolvedCurrentLanguage(call, text) ==
    /\ call \in calls
    /\ calls' = calls \ {call}
    /\ items' = updateItem(items, call.id,
                    [status |-> COMPLETED, text |-> ResultText(text, language)])
    /\ UNCHANGED <<language, initialEffect, nextId, card, starts, pendingMedia, recorders,
                   pendingReads, userOps>>

\* generateContent resolved: handleProcessing stores the text.
Resolved(call, text) ==
    /\ call \in calls
    /\ calls' = calls \ {call}
    /\ items' = updateItem(items, call.id,
                    [status |-> COMPLETED, text |-> ResultText(text, call.language)])
    /\ UNCHANGED <<language, initialEffect, nextId, card, starts, pendingMedia, recorders,
                   pendingReads, userOps>>

\* blobToBase64 or generateContent rejected: the catch of generateReportFromAudio
\* rethrows, the catch of handleProcessing stores the message.
Rejected(call, message) ==
    /\ call \in calls
    /\ calls' = calls \ {call}
    /\ items' = updateItem(items, call.id,
                    [status |-> ERROR, error |-> ThrownMessage(message)])
    /\ UNCHANGED <<language, initialEffect, nextId, card, starts, pendingMedia, recorders,
                   pendingReads, userOps>>

\* The Reset link (rendered while status is ERROR).
Reset(id) ==
    /\ Mounted(id)
    /\ ItemOf(id).status = ERROR
    /\ userOps < MaxUserOps
    /\ userOps' = userOps + 1
    /\ items' = updateItem(items, id, [status |-> IDLE, error |-> undefined])
    /\ UNCHANGED <<language, initialEffect, nextId, card, starts, pendingMedia, recorders,
                   calls, pendingReads>>

\* onChange of the name input, the context textarea and the summary textarea
\* (the last is rendered while status is COMPLETED).
editSpeakerName(id, name) ==
    /\ Mounted(id)
    /\ userOps < MaxUserOps
    /\ userOps' = userOps + 1
    /\ items' = updateItem(items, id, [speakerName |-> name])
    /\ UNCHANGED <<language, initialEffect, nextId, card, starts, pendingMedia,
                   recorders, calls, pendingReads>>

editContextText(id, text) ==
    /\ Mounted(id)
    /\ userOps < MaxUserOps
    /\ userOps' = userOps + 1
    /\ items' = updateItem(items, id, [contextText |-> text])
    /\ UNCHANGED <<language, initialEffect, nextId, card, starts, pendingMedia,
                   recorders, calls, pendingReads>>

\* onChange of the summary textarea passing { text, status: CardStatus.IDLE }.
editTextToIdle(id, text) ==
    /\ Mounted(id)
    /\ ItemOf(id).status = COMPLETED
    /\ userOps < MaxUserOps
    /\ userOps' = userOps + 1
    /\ items' = updateItem(items, id, [text |-> text, status |-> IDLE])
    /\ UNCHANGED <<language, initialEffect, nextId, card, starts, pendingMedia,
                   recorders, calls, pendingReads>>

editText(id, text) ==
    /\ Mounted(id)
    /\ ItemOf(id).status = COMPLETED
    /\ userOps < MaxUserOps
    /\ userOps' = userOps + 1
    /\ items' = updateItem(items, id, [text |-> text])
    /\ UNCHANGED <<language, initialEffect, nextId, card, starts, pendingMedia,
                   recorders, calls, pendingReads>>

\* onChange of the file input: handleFileUpload up to its await of fileToData.
handleFileUpload(id, file) ==
    /\ Mounted(id)
    /\ userOps < MaxUserOps
    /\ userOps' = userOps + 1
    /\ pendingReads' = pendingReads \cup {[id |-> id, file |-> file]}
    /\ UNCHANGED <<items, language, initialEffect, nextId, card, starts, pendingMedia,
                   recorders, calls>>

\* fileToData resolved, the attachment stored only when the card has none.
FileReadKeepsFirst(read) ==
    /\ read \in pendingReads
    /\ pendingReads' = pendingReads \ {read}
    /\ items' = IF Mounted(read.id) /\ ItemOf(read.id).contextFile # undefined
                THEN items
                ELSE updateItem(items, read.id, [contextFile |-> read.file])
    /\ UNCHANGED <<language, initialEffect, nextId, card, starts, pendingMedia,
                   recorders, calls, userOps>>

\* fileToData resolved: the attachment replaces contextFile.
FileRead(read) ==
    /\ read \in pendingReads
    /\ pendingReads' = pendingReads \ {read}
    /\ items' = updateItem(items, read.id, [contextFile |-> read.file])
    /\ UNCHANGED <<language, initialEffect, nextId, card, starts, pendingMedia,
                   recorders, calls, userOps>>

\* fileToData rejected, the catch dropping the attachment.
FileReadFailedClears(read) ==
    /\ read \in pendingReads
    /\ pendingReads' = pendingReads \ {read}
    /\ items' = updateItem(items, read.id, [contextFile |-> undefined])
    /\ UNCHANGED <<language, initialEffect, nextId, card, starts, pendingMedia,
                   recorders, calls, userOps>>

\* fileToData rejected: logged only.
FileReadFailed(read) ==
    /\ read \in pendingReads
    /\ pendingReads' = pendingReads \ {read}
    /\ UNCHANGED <<items, language, initialEffect, nextId, card, starts, pendingMedia,
                   recorders, calls, userOps>>

\* The remove button next to the attachment (rendered while one is attached).
removeFile(id) ==
    /\ Mounted(id)
    /\ ItemOf(id).contextFile # undefined
    /\ userOps < MaxUserOps
    /\ userOps' = userOps + 1
    /\ items' = updateItem(items, id, [contextFile |-> undefined])
    /\ UNCHANGED <<language, initialEffect, nextId, card, starts, pendingMedia,
                   recorders, calls, pendingReads>>

Init ==
    /\ items = <<>>
    /\ language = "en"
    /\ initialEffect = TRUE
    /\ nextId = 1
    /\ card = [id \in CardIds |-> FreshCard]
    /\ starts = [id \in CardIds |-> 0]
    /\ pendingMedia = <<>>
    /\ recorders = <<>>
    /\ calls = {}
    /\ pendingReads = {}
    /\ userOps = 0

Next ==
    \/ InitialCard
    \/ NewSpeaker
    \/ \E lang \in TargetLanguage : setLanguage(lang)
    \/ \E id \in CardIds : startRecording(id)
    \/ \E i \in DOMAIN pendingMedia : MediaGranted(i)
    \/ \E i \in DOMAIN pendingMedia : MediaDenied(i)
    \/ \E r \in DOMAIN recorders : Tick(r)
    \/ \E id \in CardIds : Stop(id)
    \/ \E id \in CardIds : deleteCard(id)
    \/ \E r \in DOMAIN recorders : onstop(r)
    \/ \E call \in calls, text \in ResponseTexts : Resolved(call, text)
    \/ \E call \in calls, message \in FailureMessages : Rejected(call, message)
    \/ \E id \in CardIds : Reset(id)
    \/ \E id \in CardIds, name \in SpeakerNames : editSpeakerName(id, name)
    \/ \E id \in CardIds, text \in ContextTexts : editContextText(id, text)
    \/ \E id \in CardIds, text \in SummaryTexts : editText(id, text)
    \/ \E id \in CardIds, file \in Files : handleFileUpload(id, file)
    \/ \E read \in pendingReads : FileRead(read)
    \/ \E read \in pendingReads : FileReadFailed(read)
    \/ \E id \in CardIds : removeFile(id)

Spec == Init /\ [][Next]_vars

\* The event loop runs every queued task: the stop event of a stopped recorder
\* is delivered, and (the remote service answering or failing every request)
\* the promise of every call in flight settles.
FairSpec ==
    /\ Spec
    /\ \A r \in 1..MaxUserOps : WF_vars(onstop(r))
    /\ \A id \in CardIds :
          WF_vars(\E call \in calls :
                    /\ call.id = id
                    /\ \/ \E text \in ResponseTexts : Resolved(call, text)
                       \/ \E message \in FailureMessages : Rejected(call, message))

\* ------------------------------------------------------------------ properties
StatusOf(its, id) == its[CHOOSE i \in DOMAIN its : its[i].id = id].status

FieldOf(its, id, f) == its[CHOOSE i \in DOMAIN its : its[i].id = id][f]

IdsOf(its) == {its[i].id : i \in DOMAIN its}

\* The status changes of section 4.1.
StatusEdges ==
    {<<IDLE, RECORDING>>, <<IDLE, ERROR>>, <<RECORDING, PROCESSING>>,
     <<PROCESSING, COMPLETED>>, <<PROCESSING, ERROR>>, <<ERROR, IDLE>>}

\* C1: every change of a card's status is one of Idle->Recording, Idle->Error,
\* Recording->Processing, Processing->Completed, Processing->Error, Error->Idle.
C1_OnlyListedStatusChanges ==
    [][\A id \in IdsOf(items) \cap IdsOf(items') :
          \/ StatusOf(items', id) = StatusOf(items, id)
          \/ <<StatusOf(items, id), StatusOf(items', id)>> \in StatusEdges]_vars

\* C2: the Stop button of a Recording card always sets Processing with
\* durationSeconds equal to the timer at that moment and stops the recorder;
\* every stopped recorder has its stop event pending or has made exactly one
\* submission, a submission is only ever made by the delivery of a stop event
\* (never by a failure or a completion), and stopRecording changes nothing when
\* the card's recorder is not recording.
C2_StopSubmitsOnce ==
    /\ [][\A id \in CardIds :
            Stop(id) =>
                /\ StatusOf(items', id) = PROCESSING
                /\ FieldOf(items', id, "durationSeconds") = card[id].timer
                /\ recorders'[card[id].mediaRecorderRef].state = "inactive"
                /\ recorders'[card[id].mediaRecorderRef].stopPending]_vars
    /\ [](\A r \in DOMAIN recorders :
            /\ recorders[r].stops <= 1
            /\ recorders[r].submitted <= 1
            /\ recorders[r].state = "inactive" =>
                 recorders[r].submitted = (IF recorders[r].stopPending THEN 0 ELSE 1))
    /\ [][\A call \in calls' \ calls :
            /\ Cardinality(calls' \ calls) = 1
            /\ recorders[call.recorder].stopPending
            /\ recorders'[call.recorder].submitted = 1]_vars
    /\ [](\A id \in IdsOf(items) :
            ~IsRecording(card[id].mediaRecorderRef) =>
                ~ENABLED (stopRecording(id) /\ userOps' = userOps /\ vars' # vars))

\* C2 witness: a card stopped by its Stop button whose one submission is in flight.
C2_Witness ==
    \E call \in calls :
        /\ Mounted(call.id)
        /\ ItemOf(call.id).status = PROCESSING
        /\ ItemOf(call.id).durationSeconds = 1
        /\ recorders[call.recorder].stoppedBy = "stopRecording"
        /\ recorders[call.recorder].submitted = 1

\* C3: a card started once, with access granted, stopped at counter value d,
\* whose call resolves with a non-empty text t ends Completed with text t,
\* durationSeconds d and no error.
C3_ScenarioCompletes ==
    [][\A call \in calls, text \in ResponseTexts \ {""} :
          (Resolved(call, text) /\ Mounted(call.id) /\ starts[call.id] = 1) =>
              /\ StatusOf(items', call.id) = COMPLETED
              /\ FieldOf(items', call.id, "text") = text
              /\ FieldOf(items', call.id, "durationSeconds") = call.timerAtStop
              /\ FieldOf(items', call.id, "error") = undefined]_vars

\* C3 witness: the scenario's end state with d = 1.
C3_Witness ==
    \E id \in IdsOf(items) :
        /\ starts[id] = 1
        /\ ItemOf(id).status = COMPLETED
        /\ ItemOf(id).text = "- Task A done"
        /\ ItemOf(id).durationSeconds = 1
        /\ ItemOf(id).error = undefined

RecordersOf(id) == {r \in DOMAIN recorders : recorders[r].id = id}

\* C4: when device access fails the card goes from Idle to Error with error
\* "Mic access denied", and it then holds no capture session and has no
\* elapsed-time counter running.
C4_DeniedLeavesNothingRunning ==
    [][\A i \in DOMAIN pendingMedia :
          (MediaDenied(i) /\ Mounted(pendingMedia[i].id)) =>
              LET id == pendingMedia[i].id
              IN /\ StatusOf(items, id) = IDLE
                 /\ StatusOf(items', id) = ERROR
                 /\ FieldOf(items', id, "error") = MicAccessDenied
                 /\ \A r \in RecordersOf(id) :
                        ~recorders'[r].streamLive /\ ~recorders'[r].intervalLive]_vars

\* C5: when the call of a Processing card fails, the card goes to Error with
\* the failure's message, or "Failed to process audio." when it has none, and
\* its text, contextText and contextFile are unchanged.
C5_FailureSetsError ==
    [][\A call \in calls, message \in FailureMessages :
          (Rejected(call, message) /\ Mounted(call.id)
             /\ StatusOf(items, call.id) = PROCESSING) =>
              /\ StatusOf(items', call.id) = ERROR
              /\ FieldOf(items', call.id, "error") =
                     (IF message = "" THEN FailedToProcess ELSE message)
              /\ \A f \in {"text", "contextText", "contextFile"} :
                     FieldOf(items', call.id, f) = FieldOf(items, call.id, f)]_vars

\* C5 witness: a card in Error carrying the generic fallback, which only a
\* failure without message produces.
C5_Witness ==
    \E id \in IdsOf(items) :
        /\ ItemOf(id).status = ERROR
        /\ ItemOf(id).error = FailedToProcess
        /\ ItemOf(id).contextText # undefined

\* C6: once a card has been deleted while Recording and the stop event of its
\* recorder has been delivered, no capture session acquired for the card before
\* the delete is still held, and none was stopped or released twice.
C6_DeleteReleasesSession ==
    \A r \in DOMAIN recorders :
        (/\ recorders[r].stoppedBy = "unmount"
         /\ recorders[r].statusAtStop = RECORDING
         /\ ~recorders[r].stopPending) =>
            \A q \in RecordersOf(recorders[r].id) :
                q <= r => /\ ~recorders[q].streamLive
                          /\ recorders[q].stops = 1
                          /\ recorders[q].releases = 1

\* C7: each card holds at most one live capture session, no session is
\* released twice, and a card that is gone, with no stop event of its
\* recorders still to be delivered, holds none.
C7_OneSessionReleasedOnce ==
    \A id \in CardIds :
        /\ Cardinality({r \in RecordersOf(id) : recorders[r].streamLive}) <= 1
        /\ \A r \in RecordersOf(id) : recorders[r].releases <= 1
        /\ (~Mounted(id) /\ \A r \in RecordersOf(id) : ~recorders[r].stopPending) =>
               \A r \in RecordersOf(id) : ~recorders[r].streamLive

Fallback(lang) == IF lang = "en" THEN NoUpdatesEn ELSE NoUpdatesDe

\* C8: when the call of a recording stopped by stop-recording resolves with an
\* empty text, the card's text becomes the fallback of the language that was
\* selected at the stop.
C8_FallbackOfLanguageAtStop ==
    [][\A call \in calls :
          (/\ Resolved(call, "")
           /\ Mounted(call.id)
           /\ recorders[call.recorder].stoppedBy = "stopRecording") =>
              FieldOf(items', call.id, "text") = Fallback(call.languageAtStop)]_vars

\* C9: a submission made by stop-recording sends the contextText and the
\* contextFile the card held at the stop.
C9_SendsContextAtStop ==
    \A call \in calls :
        recorders[call.recorder].stoppedBy = "stopRecording" =>
            /\ call.contextText = call.contextTextAtStop
            /\ call.contextFile = call.contextFileAtStop

\* C10: a change of language changes no card, no pending start and no call in
\* flight, and a call that resolves stores the text, or the fallback, of the
\* language it was issued with, whatever language is selected by then.
C10_LanguageChangeTouchesNoCard ==
    /\ [][language' # language =>
            /\ items' = items
            /\ calls' = calls
            /\ recorders' = recorders
            /\ pendingMedia' = pendingMedia]_vars
    /\ [][\A call \in calls, text \in ResponseTexts :
            (Resolved(call, text) /\ Mounted(call.id)) =>
                FieldOf(items', call.id, "text") =
                    (IF text # "" THEN text ELSE Fallback(call.language))]_vars

\* C10 witness: German is selected while a card is Processing with a call
\* issued in English, for a recording that was stopped while English was selected.
C10_Witness ==
    /\ language = "de"
    /\ \E call \in calls :
          /\ Mounted(call.id)
          /\ ItemOf(call.id).status = PROCESSING
          /\ call.language = "en"
          /\ call.languageAtStop = "en"

ItemIn(its, id) == its[CHOOSE i \in DOMAIN its : its[i].id = id]

\* The step leaves card b as it is: its item, its component state and refs,
\* and every recorder (with its stream and interval) constructed for it.
KeptCard(b) ==
    /\ b \in IdsOf(items')
    /\ ItemIn(items', b) = ItemIn(items, b)
    /\ card'[b] = card[b]
    /\ \A r \in RecordersOf(b) : recorders'[r] = recorders[r]

\* The step is a user action on card a or an asynchronous completion of a.
ActsFor(a) ==
    \/ startRecording(a)
    \/ \E i \in DOMAIN pendingMedia :
          pendingMedia[i].id = a /\ (MediaGranted(i) \/ MediaDenied(i))
    \/ Stop(a)
    \/ \E r \in RecordersOf(a) : Tick(r) \/ onstop(r)
    \/ \E call \in calls :
          /\ call.id = a
          /\ \/ \E text \in ResponseTexts : Resolved(call, text)
             \/ \E message \in FailureMessages : Rejected(call, message)
    \/ Reset(a)
    \/ \E name \in SpeakerNames : editSpeakerName(a, name)
    \/ \E text \in ContextTexts : editContextText(a, text)
    \/ \E text \in SummaryTexts : editText(a, text)
    \/ \E file \in Files : handleFileUpload(a, file)
    \/ \E read \in pendingReads : read.id = a /\ (FileRead(read) \/ FileReadFailed(read))
    \/ removeFile(a)
    \/ deleteCard(a)

\* C11: a card's item, its component state and its recorders change only in a
\* step that is an action or an asynchronous completion of that same card, so
\* whatever happens to card A (its deletion included) leaves every other card B
\* as it is; and every card in the collection can be deleted (the user having
\* operations left), whatever the status of the others.
C11_CardsIndependent ==
    /\ [][\A b \in IdsOf(items) : KeptCard(b) \/ ActsFor(b)]_vars
    /\ [](userOps < MaxUserOps => \A b \in IdsOf(items) : ENABLED deleteCard(b))

\* C11 witness: of two cards created, one has been deleted and the other is
\* Recording with its capture session live.
C11_Witness ==
    /\ Len(items) = 1
    /\ nextId = 3
    /\ items[1].status = RECORDING
    /\ \E r \in RecordersOf(items[1].id) :
          recorders[r].state = "recording" /\ recorders[r].streamLive

\* C12: an edit of speakerName, contextText or text leaves the card's status,
\* id, timestamp, durationSeconds and error as they were, whatever the status.
C12_EditsKeepStatus ==
    [][\A id \in IdsOf(items) :
          (\/ \E name \in SpeakerNames : editSpeakerName(id, name)
           \/ \E text \in ContextTexts : editContextText(id, text)
           \/ \E text \in SummaryTexts : editText(id, text)) =>
              /\ id \in IdsOf(items')
              /\ \A f \in {"status", "id", "timestamp", "durationSeconds", "error"} :
                     FieldOf(items', id, f) = FieldOf(items, id, f)]_vars

\* C12 witness: a Completed card whose summary has been edited and whose name
\* was edited too, still Completed with the duration of its recording.
C12_Witness ==
    \E id \in IdsOf(items) :
        /\ ItemOf(id).status = COMPLETED
        /\ ItemOf(id).text = "- edited"
        /\ ItemOf(id).speakerName = "Alice"
        /\ ItemOf(id).durationSeconds = 1

ItemFields ==
    {"id", "speakerName", "status", "text", "timestamp", "durationSeconds", "error",
     "contextText", "contextFile"}

\* C13: when the read of a picked file completes, the card's one contextFile
\* is that file, whatever it held before, and nothing else of the card changes;
\* removing the attachment leaves contextFile absent and nothing else changed,
\* and applied to a card that has no attachment the removal's update changes
\* nothing at all; all of this in every status.
C13_AttachReplacesRemoveIsSafe ==
    /\ [][\A read \in pendingReads :
            (FileRead(read) /\ Mounted(read.id)) =>
                /\ FieldOf(items', read.id, "contextFile") = read.file
                /\ \A f \in ItemFields \ {"contextFile"} :
                       FieldOf(items', read.id, f) = FieldOf(items, read.id, f)]_vars
    /\ [][\A id \in IdsOf(items) :
            removeFile(id) =>
                /\ FieldOf(items', id, "contextFile") = undefined
                /\ \A f \in ItemFields \ {"contextFile"} :
                       FieldOf(items', id, f) = FieldOf(items, id, f)]_vars
    /\ [](\A id \in IdsOf(items) :
            ItemOf(id).contextFile = undefined =>
                updateItem(items, id, [contextFile |-> undefined]) = items)

\* C13 witness: a Recording card holds plan.pdf, and held notes.txt when its
\* recording was started: the second attachment has replaced the first.
C13_Witness ==
    \E r \in DOMAIN recorders :
        /\ Mounted(recorders[r].id)
        /\ recorders[r].state = "recording"
        /\ recorders[r].contextFile = "notes.txt"
        /\ ItemOf(recorders[r].id).status = RECORDING
        /\ ItemOf(recorders[r].id).contextFile = "plan.pdf"

\* C14: an update for an id that is not in the collection (the result of a
\* remote call, of a device-access request or of a file read arriving after the
\* card was deleted) leaves the collection as it is.
C14_UpdateOfMissingIdIsNoOp ==
    /\ [][(\/ \E call \in calls :
                /\ ~Mounted(call.id)
                /\ \/ \E text \in ResponseTexts : Resolved(call, text)
                   \/ \E message \in FailureMessages : Rejected(call, message)
            \/ \E i \in DOMAIN pendingMedia :
                /\ ~Mounted(pendingMedia[i].id)
                /\ MediaGranted(i) \/ MediaDenied(i)
            \/ \E read \in pendingReads : ~Mounted(read.id) /\ FileRead(read))
           => items' = items]_vars
    /\ [](\A id \in CardIds \ ItemIds :
            /\ updateItem(items, id, [status |-> ERROR, error |-> MicAccessDenied]) = items
            /\ updateItem(items, id, [status |-> COMPLETED, text |-> ""]) = items
            /\ updateItem(items, id, [contextFile |-> "notes.txt"]) = items)

\* C14 witness: a card was deleted while Recording, its recording was submitted
\* and the call has returned, while another card is in the collection.
C14_Witness ==
    /\ Len(items) >= 1
    /\ \E r \in DOMAIN recorders :
          /\ ~Mounted(recorders[r].id)
          /\ recorders[r].submitted = 1
          /\ \A call \in calls : call.recorder # r

\* C15: a card's error is set only while its status is Error, and the reset
\* of an Error card sets its status to Idle and clears the error.
C15_ErrorOnlyInError ==
    [][/\ \A id \in IdsOf(items') :
            FieldOf(items', id, "error") # undefined => StatusOf(items', id) = ERROR
       /\ \A id \in IdsOf(items) :
            Reset(id) =>
                /\ StatusOf(items', id) = IDLE
                /\ FieldOf(items', id, "error") = undefined]_vars

\* The text of a card that is Recording or Processing changes only when a
\* call made for the card completes.
TextKeptUntilCompletion ==
    [][\A id \in IdsOf(items) \cap IdsOf(items') :
          (/\ StatusOf(items, id) \in {RECORDING, PROCESSING}
           /\ FieldOf(items', id, "text") # FieldOf(items, id, "text")) =>
              \E call \in calls :
                  /\ call.id = id
                  /\ \E text \in ResponseTexts : Resolved(call, text)]_vars

\* C16 as stated: a Completed card has a start action available (the user
\* having operations left), and the text of a card is kept through Recording
\* and Processing until a completion overwrites it.
C16_CompletedCanRestart ==
    /\ [](\A id \in IdsOf(items) :
            (ItemOf(id).status = COMPLETED /\ userOps < MaxUserOps) =>
                ENABLED startRecording(id))
    /\ TextKeptUntilCompletion

\* C16 amended: a Completed card has no start action (a start is available
\* for an Idle card only), and the text of a card is kept through Recording
\* and Processing until a completion overwrites it.
C16_NoStartFromCompleted ==
    /\ [](\A id \in IdsOf(items) :
            /\ ItemOf(id).status = COMPLETED => ~ENABLED startRecording(id)
            /\ (ItemOf(id).status = IDLE /\ userOps < MaxUserOps) =>
                   ENABLED startRecording(id))
    /\ TextKeptUntilCompletion

\* C16 witness: a Completed card holding a text, the user still having
\* operations left.
C16_Witness ==
    \E id \in IdsOf(items) :
        /\ ItemOf(id).status = COMPLETED
        /\ ItemOf(id).text = "- Task A done"
        /\ userOps < MaxUserOps

\* Every card that is Processing is later Completed or in Error, or is deleted.
ProcessingEnds ==
    \A id \in CardIds :
        (Mounted(id) /\ ItemOf(id).status = PROCESSING) ~>
            (~Mounted(id) \/ ItemOf(id).status \in {COMPLETED, ERROR})

\* C17: with every stop event delivered and every call settled, a card that
\* enters Processing and is not deleted reaches Completed or Error, and a card
\* leaves Error only by its reset.
C17_ProcessingEndsErrorNeedsReset ==
    /\ ProcessingEnds
    /\ [][\A id \in IdsOf(items) \cap IdsOf(items') :
            (StatusOf(items, id) = ERROR /\ StatusOf(items', id) # ERROR) =>
                Reset(id)]_vars

\* C18: a card is created only by the initial effect or by New Speaker; the
\* creation appends one item with a fresh id, status Idle, empty text,
\* durationSeconds 0, no error, no context and the name "Speaker N" with N the
\* length before plus 1, and keeps the existing items in their order; the
\* initial effect is the first step, runs on the empty collection and never
\* runs again.
C18_CreateCardAppends ==
    /\ [][Len(items') > Len(items) =>
            /\ InitialCard \/ NewSpeaker
            /\ Len(items') = Len(items) + 1
            /\ SubSeq(items', 1, Len(items)) = items
            /\ LET new == items'[Len(items')]
               IN /\ new.id \notin IdsOf(items)
                  /\ new.status = IDLE
                  /\ new.text = ""
                  /\ new.durationSeconds = 0
                  /\ new.error = undefined
                  /\ new.contextText = undefined
                  /\ new.contextFile = undefined
                  /\ new.speakerName = SpeakerLabel(Len(items) + 1)]_vars
    /\ [][NewSpeaker => Len(items') = Len(items) + 1]_vars
    /\ [][InitialCard => (items = <<>> /\ Len(items') = 1)]_vars
    /\ [][~initialEffect => ~initialEffect']_vars
    /\ [](initialEffect => (items = <<>> /\ ENABLED InitialCard))

\* C18 witness: the third card created, after one of the first two was
\* deleted, is second in the collection and named "Speaker 2".
C18_Witness ==
    /\ Len(items) = 2
    /\ items[1].id \in {1, 2}
    /\ items[2].id = 3
    /\ items[2].speakerName = "Speaker 2"
    /\ items[2].status = IDLE

\* C19: when the read of a picked file fails, the card keeps the contextFile
\* it had, attached or absent, and its status and every other field; no other
\* card, recorder or call changes either.
C19_FailedReadChangesNothing ==
    [][\A read \in pendingReads :
          FileReadFailed(read) =>
              /\ items' = items
              /\ card' = card
              /\ recorders' = recorders
              /\ calls' = calls
              /\ pendingReads' = pendingReads \ {read}]_vars

\* C19 witness: the read of plan.pdf is in flight for a Processing card that
\* holds notes.txt, the attachment a failure of the read has to keep.
C19_Witness ==
    \E read \in pendingReads :
        /\ Mounted(read.id)
        /\ read.file = "plan.pdf"
        /\ ItemOf(read.id).status = PROCESSING
        /\ ItemOf(read.id).contextFile = "notes.txt"
        /\ ENABLED FileReadFailed(read)

\* The step changes, of the collection, at most the fields fs of card id.
OnlyFieldsChange(id, fs) ==
    /\ Len(items') = Len(items)
    /\ \A i \in DOMAIN items :
          /\ items'[i].id = items[i].id
          /\ items[i].id # id => items'[i] = items[i]
          /\ \A f \in ItemFields \ fs : items'[i][f] = items[i][f]

\* C20: the update of a completion changes only status and text of its card,
\* that of a failure only status and error, that of stop-recording only status
\* and durationSeconds; every other field of the card (speakerName,
\* contextText, contextFile as last edited) and every other card, as its own
\* last update left it, are kept.
C20_UpdatesArePartialMerges ==
    /\ [][\A call \in calls :
            /\ (\E text \in ResponseTexts : Resolved(call, text)) =>
                   OnlyFieldsChange(call.id, {"status", "text"})
            /\ (\E message \in FailureMessages : Rejected(call, message)) =>
                   OnlyFieldsChange(call.id, {"status", "error"})]_vars
    /\ [][\A id \in IdsOf(items) :
            Stop(id) => OnlyFieldsChange(id, {"status", "durationSeconds"})]_vars

\* C20 witness: a card whose name and context were edited has been stopped
\* and its call has returned: it is Completed with the returned text and the
\* edits are still there.
C20_Witness ==
    \E id \in IdsOf(items) :
        /\ starts[id] = 1
        /\ ItemOf(id).status = COMPLETED
        /\ ItemOf(id).text = "- Task A done"
        /\ ItemOf(id).speakerName = "Alice"
        /\ ItemOf(id).contextText = "Already deployed v1"

\* C21: deleting a Recording card stops the card's recorder, and that alone,
\* with its stop event pending; the delivery of the stop event of a recorder
\* stopped by the unmount issues exactly one call, for the deleted card, and
\* no such recorder ever submits twice; the delivery and the result of the
\* call, success or failure, leave the collection as it is, the deleted card
\* not being in it.
C21_DeletedRecordingStillSubmits ==
    /\ [][\A id \in IdsOf(items) :
            (deleteCard(id) /\ StatusOf(items, id) = RECORDING) =>
                LET r == card[id].mediaRecorderRef
                IN /\ r # null
                   /\ recorders[r].state = "recording"
                   /\ recorders'[r].state = "inactive"
                   /\ recorders'[r].stopPending
                   /\ recorders'[r].stoppedBy = "unmount"
                   /\ \A q \in DOMAIN recorders \ {r} : recorders'[q] = recorders[q]
                   /\ calls' = calls]_vars
    /\ [](\A r \in DOMAIN recorders :
            recorders[r].stoppedBy = "unmount" =>
                /\ ~Mounted(recorders[r].id)
                /\ recorders[r].submitted = (IF recorders[r].stopPending THEN 0 ELSE 1)
                /\ recorders[r].stopPending => ENABLED onstop(r))
    /\ [][\A r \in DOMAIN recorders :
            (onstop(r) /\ recorders[r].stoppedBy = "unmount") =>
                /\ Cardinality(calls' \ calls) = 1
                /\ \A call \in calls' \ calls :
                       call.recorder = r /\ call.id = recorders[r].id
                /\ items' = items]_vars
    /\ [][\A call \in calls :
            (/\ recorders[call.recorder].stoppedBy = "unmount"
             /\ \/ \E text \in ResponseTexts : Resolved(call, text)
                \/ \E message \in FailureMessages : Rejected(call, message)) =>
                /\ items' = items
                /\ call.id \notin IdsOf(items')]_vars

\* C21 witness: a card was deleted while Recording, the stop event of its
\* recorder was delivered, the one call was made and has returned, and the
\* collection holds another card.
C21_Witness ==
    /\ Len(items) >= 1
    /\ calls = {}
    /\ \E r \in DOMAIN recorders :
          /\ recorders[r].stoppedBy = "unmount"
          /\ recorders[r].statusAtStop = RECORDING
          /\ recorders[r].submitted = 1
          /\ ~Mounted(recorders[r].id)
====
